---- MODULE Spec2Model ----
(***************************************************************************)
(* Model of convert-latest-missing-lwn-weekly-articles-to-epub.py.         *)
(*                                                                         *)
(* A Python str is a sequence of one-character strings.  The file-name     *)
(* template is a sequence whose elements are characters or the replacement *)
(* field "{weekno}".  A date is a record [year, month, day].               *)
(*                                                                         *)
(* Three specifications:                                                   *)
(*   Spec      main() from the session creation to the exit (329-350)      *)
(*   SpecArgs  the option resolution of main() (323-327)                   *)
(*   SpecPath  to_epub_file_path applied to pairs of publication dates     *)
(***************************************************************************)
EXTENDS Integers, Sequences, FiniteSets, TLC

VARIABLES
    args,               \* the argparse namespace main() works with
    pc,                 \* position of main()
    run,                \* number of the run of the program, from 1
    remote,             \* what LWN.net serves, {} until first fetched
    scanned,            \* the disk as it was when the inventory was scanned
    disk,               \* files on the local disk (normalised paths)
    most_recent_epub_id_maps,   \* dict as a sequence of <<key, value>>
    discovered,         \* every <<path, id>> in the order it was discovered
    converted_epubs,    \* result of get_converted_epubs
    missing_epub_id_maps,       \* dict as a sequence of <<key, value>>
    next_item,          \* index of the for loop of line 347
    clock,              \* the limiter's clock (seconds)
    last_reset,         \* RateLimitDecorator.last_reset
    num_calls,          \* RateLimitDecorator.num_calls
    runs,               \* executions of the body of convert_issue_to_epub
    trace,              \* requests, scans, sleeps and raised errors, in order
    exit_status,        \* exit status of the process, -1 while running
    config,             \* pre_args.config: was it given, and the dicts read
    cli,                \* options given on the command line
    defaults,           \* the parser's defaults, by option
    next_config,        \* index of the for loop of line 325
    date1, date2,       \* two publication dates
    path1, path2        \* their paths

runVars == <<pc, run, remote, scanned, disk, most_recent_epub_id_maps, discovered,
             converted_epubs, missing_epub_id_maps, next_item, clock,
             last_reset, num_calls, runs, trace, exit_status>>
argVars == <<config, cli, defaults, next_config>>
pathVars == <<date1, date2, path1, path2>>
vars == <<args, runVars, argVars, pathVars>>

----------------------------------------------------------------------------
(* Bounds *)

MaxArchive == 2         \* archive links served by the archive page
MaxConfigs == 2         \* files given to --config
MaxDay == 8             \* days taken at each end of a year
MaxRuns == 2            \* runs of the program, one after the other

(* Program constants *)

ONE_MINUTE == 60
MAX_CALLS_PER_MINUTE == 1

----------------------------------------------------------------------------
(* Strings *)

RECURSIVE Concat(_)
Concat(ss) == IF ss = <<>> THEN <<>> ELSE Head(ss) \o Concat(Tail(ss))

StartsWith(s, c) == Len(s) > 0 /\ s[1] = c
EndsWith(s, c) == Len(s) > 0 /\ s[Len(s)] = c

Digits == <<"0", "1", "2", "3", "4", "5", "6", "7", "8", "9">>

\* a number below 100 as two decimal digits, as %y and %W print it
TwoDigits(n) == <<Digits[(n \div 10) + 1], Digits[(n % 10) + 1]>>

----------------------------------------------------------------------------
(* datetime.date, as date.strftime needs it *)

is_leap(y) == y % 4 = 0 /\ (y % 100 # 0 \/ y % 400 = 0)

days_in_month(y, m) ==
    IF m = 2 THEN (IF is_leap(y) THEN 29 ELSE 28)
    ELSE IF m \in {4, 6, 9, 11} THEN 30 ELSE 31

days_before_year(y) ==
    (y - 1) * 365 + ((y - 1) \div 4) - ((y - 1) \div 100) + ((y - 1) \div 400)

RECURSIVE days_before_month(_, _)
days_before_month(y, m) ==
    IF m = 1 THEN 0
    ELSE days_before_month(y, m - 1) + days_in_month(y, m - 1)

ymd2ord(y, m, d) == days_before_year(y) + days_before_month(y, m) + d

toordinal(date) == ymd2ord(date.year, date.month, date.day)

\* Monday is 0
weekday(date) == (toordinal(date) + 6) % 7

\* tm_yday, 1 on 1 January
yday(date) == days_before_month(date.year, date.month) + date.day

\* %y: the year without century
strftime_y(date) == date.year % 100

\* %U: week of the year, Sunday first
strftime_U(date) == (yday(date) - 1 + 7 - ((weekday(date) + 1) % 7)) \div 7

\* %W: week of the year, Monday first; the days before the first Monday
\* of the year are in week 0
strftime_W(date) == (yday(date) - 1 + 7 - weekday(date)) \div 7

\* date.strftime('%W')
strftime_W_only(date) == TwoDigits(strftime_W(date))

\* date.strftime('%y%W')
strftime_yW(date) == TwoDigits(strftime_y(date)) \o TwoDigits(strftime_W(date))

----------------------------------------------------------------------------
(* os.path *)

\* os.path.join(a, b) of posixpath
path_join(a, b) ==
    IF StartsWith(b, "/") THEN b
    ELSE IF a = <<>> \/ EndsWith(a, "/") THEN a \o b
    ELSE a \o <<"/">> \o b

\* str.format(weekno=w) of a template
format(template, w) ==
    Concat([i \in 1..Len(template) |->
              IF template[i] = "{weekno}" THEN w ELSE <<template[i]>>])

to_epub_file_path(a, date) ==
    path_join(a.epub_directory, format(a.epub_file_format, strftime_yW(date)))

----------------------------------------------------------------------------
(* The file system: disk is the set of the files, as normalised paths      *)
(* relative to the working directory; the directories are the ancestors of *)
(* the files and the epub directory, which ExistingDirectoryType checked.  *)

\* a path as the kernel resolves it: runs of "/" are one separator and a
\* trailing "/" is dropped
RECURSIVE normpath(_)
normpath(p) ==
    IF p = <<>> THEN <<>>
    ELSE IF Head(p) = "/" /\ (Len(p) = 1 \/ p[2] = "/") THEN normpath(Tail(p))
    ELSE <<Head(p)>> \o normpath(Tail(p))

\* index of the last "/" of p, 0 when there is none
LastSlash(p) ==
    IF \E i \in 1..Len(p) : p[i] = "/"
    THEN CHOOSE i \in 1..Len(p) : p[i] = "/" /\ \A j \in (i + 1)..Len(p) : p[j] # "/"
    ELSE 0

RECURSIVE rstrip_slash(_)
rstrip_slash(p) ==
    IF EndsWith(p, "/") THEN rstrip_slash(SubSeq(p, 1, Len(p) - 1)) ELSE p

\* os.path.split of posixpath: <<head, tail>>
path_split(p) ==
    LET i == LastSlash(p)
        head == SubSeq(p, 1, i)
        tail == SubSeq(p, i + 1, Len(p))
    IN  IF head # <<>> /\ \E k \in 1..Len(head) : head[k] # "/"
        THEN <<rstrip_slash(head), tail>>
        ELSE <<head, tail>>

RECURSIVE Ancestors(_)
Ancestors(p) ==
    LET parent == path_split(p)[1]
    IN  IF parent = <<>> THEN {} ELSE {parent} \cup Ancestors(parent)

DirsOf(files, a) ==
    LET d == normpath(a.epub_directory)
    IN  {d} \cup Ancestors(d) \cup UNION {Ancestors(f) : f \in files}

FileSystem(files, a) == [files |-> files, dirs |-> DirsOf(files, a)]

isdir(fs, p) == p = <<>> \/ normpath(p) \in fs.dirs
lexists(fs, p) == normpath(p) \in fs.files \cup fs.dirs

\* os.listdir / os.scandir: the names in directory d, <<>> for the
\* working directory
listdir(fs, d, dironly) ==
    {path_split(e)[2] :
        e \in {x \in (IF dironly THEN fs.dirs ELSE fs.files \cup fs.dirs) :
                 path_split(x)[1] = normpath(d)}}

----------------------------------------------------------------------------
(* fnmatch and glob of the standard library *)

AsciiOrder ==
    <<"!", "*", "-", ".", "/",
      "0", "1", "2", "3", "4", "5", "6", "7", "8", "9", "?", "[", "]",
      "a", "b", "c", "d", "e", "f", "g", "h", "i", "j", "k", "l", "m",
      "n", "o", "p", "q", "r", "s", "t", "u", "v", "w", "x", "y", "z">>

Ord(c) == CHOOSE i \in 1..Len(AsciiOrder) : AsciiOrder[i] = c

\* the index of the "]" that closes the class opened just before position
\* i of pat, 0 when the "[" is not closed (fnmatch.translate)
ClassEnd(pat, i) ==
    LET n == Len(pat)
        j1 == IF i <= n /\ pat[i] = "!" THEN i + 1 ELSE i
        j2 == IF j1 <= n /\ pat[j1] = "]" THEN j1 + 1 ELSE j1
    IN  IF \E j \in j2..n : pat[j] = "]"
        THEN CHOOSE j \in j2..n : pat[j] = "]" /\ \A k \in j2..(j - 1) : pat[k] # "]"
        ELSE 0

\* does the character class with content stuff match c
InClass(stuff, c) ==
    LET negated == StartsWith(stuff, "!")
        body == IF negated THEN Tail(stuff) ELSE stuff
        n == Len(body)
        single == \E k \in 1..n :
                      body[k] = c /\ (c # "-" \/ k \in {1, n})
        ranged == \E k \in 2..(n - 1) :
                      /\ body[k] = "-"
                      /\ Ord(body[k - 1]) <= Ord(c)
                      /\ Ord(c) <= Ord(body[k + 1])
    IN  IF negated THEN ~(single \/ ranged) ELSE single \/ ranged

\* fnmatch.fnmatchcase(name, pat)
RECURSIVE fnmatch(_, _)
fnmatch(name, pat) ==
    IF pat = <<>> THEN name = <<>>
    ELSE IF Head(pat) = "*"
    THEN fnmatch(name, Tail(pat)) \/ (name # <<>> /\ fnmatch(Tail(name), pat))
    ELSE IF Head(pat) = "?"
    THEN name # <<>> /\ fnmatch(Tail(name), Tail(pat))
    ELSE IF Head(pat) = "[" /\ ClassEnd(pat, 2) # 0
    THEN LET j == ClassEnd(pat, 2)
         IN  /\ name # <<>>
             /\ InClass(SubSeq(pat, 2, j - 1), Head(name))
             /\ fnmatch(Tail(name), SubSeq(pat, j + 1, Len(pat)))
    ELSE name # <<>> /\ Head(name) = Head(pat) /\ fnmatch(Tail(name), Tail(pat))

has_magic(s) == \E i \in 1..Len(s) : s[i] \in {"*", "?", "["}

ishidden(s) == StartsWith(s, ".")

\* glob._glob1: the names of a directory that match a pattern
glob1(fs, dirname, pattern, dironly) ==
    {n \in listdir(fs, dirname, dironly) :
        /\ (ishidden(pattern) \/ ~ishidden(n))
        /\ fnmatch(n, pattern)}

\* glob._glob0: a literal name
glob0(fs, dirname, basename, dironly) ==
    IF basename = <<>>
    THEN (IF isdir(fs, dirname) THEN {basename} ELSE {})
    ELSE (IF lexists(fs, path_join(dirname, basename)) THEN {basename} ELSE {})

\* glob._iglob, not recursive ("**" has no special meaning)
RECURSIVE iglob(_, _, _)
iglob(fs, pathname, dironly) ==
    LET dirname == path_split(pathname)[1]
        basename == path_split(pathname)[2]
    IN  IF ~has_magic(pathname)
        THEN (IF basename # <<>>
              THEN (IF lexists(fs, pathname) THEN {pathname} ELSE {})
              ELSE (IF isdir(fs, dirname) THEN {pathname} ELSE {}))
        ELSE IF dirname = <<>>
        THEN glob1(fs, <<>>, basename, dironly)
        ELSE LET dirs == IF dirname # pathname /\ has_magic(dirname)
                         THEN iglob(fs, dirname, TRUE)
                         ELSE {dirname}
             IN  UNION {{path_join(d, n) :
                           n \in (IF has_magic(basename)
                                  THEN glob1(fs, d, basename, dironly)
                                  ELSE glob0(fs, d, basename, dironly))} :
                        d \in dirs}

\* '[0-9]'*4
weekno_pattern ==
    Concat([i \in 1..4 |-> <<"[", "0", "-", "9", "]">>])

\* get_converted_epubs; the list is used for membership only, so a set
get_converted_epubs(fs, a) ==
    iglob(fs, path_join(a.epub_directory,
                        format(a.epub_file_format, weekno_pattern)), FALSE)

----------------------------------------------------------------------------
(* dict: a sequence of <<key, value>> in insertion order *)

Keys(d) == {d[i][1] : i \in 1..Len(d)}

\* a present key moves to the end
dict_set_moving(d, k, v) ==
    Append(SelectSeq(d, LAMBDA kv : kv[1] # k), <<k, v>>)

\* a present key keeps its value (dict.setdefault)
dict_set_keeping(d, k, v) ==
    IF k \in Keys(d) THEN d ELSE Append(d, <<k, v>>)

\* d[k] = v: a new key goes to the end, a present key keeps its position
\* and takes the new value
dict_set(d, k, v) ==
    IF k \in Keys(d)
    THEN [i \in 1..Len(d) |-> IF d[i][1] = k THEN <<k, v>> ELSE d[i]]
    ELSE Append(d, <<k, v>>)

\* d |= other
RECURSIVE dict_update(_, _)
dict_update(d, other) ==
    IF other = <<>> THEN d
    ELSE dict_update(dict_set(d, Head(other)[1], Head(other)[2]), Tail(other))

----------------------------------------------------------------------------
(* Inputs *)

Default_epub_file_format ==
    <<"l", "w", "n", ".", "n", "e", "t", "-", "{weekno}",
      ".", "e", "p", "u", "b">>

EpubDirectories ==
    {<<"b">>, <<"b", "/">>, <<"b", "/", "/">>, <<"[", "b", "]">>}

Templates == {Default_epub_file_format, <<"[", "n", "]", "{weekno}">>}

Credentials ==
    {[username |-> "None", password |-> "None"],
     [username |-> "u", password |-> "None"],
     [username |-> "u", password |-> "p"]}

Namespaces ==
    {[epub_directory |-> d, epub_file_format |-> t,
      username |-> c.username, password |-> c.password,
      login_url |-> "https://lwn.net/Login/"] :
        d \in EpubDirectories, t \in Templates, c \in Credentials}

Date(y, m, d) == [year |-> y, month |-> m, day |-> d]

\* a Wednesday, the Thursday of the same week, the Thursday after
RunDates == {Date(2025, 1, 8), Date(2025, 1, 9), Date(2025, 1, 16)}

\* the archive page: a list of dated links, or a page that does not parse
RECURSIVE SeqsUpTo(_, _)
SeqsUpTo(S, n) ==
    IF n = 0 THEN {<<>>}
    ELSE LET shorter == SeqsUpTo(S, n - 1)
         IN  shorter \cup {Append(q, x) : q \in shorter, x \in S}

\* a page that parses, or one that does not
Page(content) == [parses |-> TRUE, content |-> content]
Malformed == [parses |-> FALSE, content |-> <<>>]

ArchivePages == {Page(links) : links \in SeqsUpTo(RunDates, MaxArchive)}
                \cup {Malformed}
CurrentPages == {Page(<<d>>) : d \in RunDates} \cup {Malformed}

\* the answer to the login request, or no answer
Response(status_code) == [raised |-> FALSE, status_code |-> status_code]
ConnectionError == [raised |-> TRUE, status_code |-> 0]

LoginResponses == {Response(200), Response(403), ConnectionError}

\* seconds from the import of the module to the first conversion
StartupDelays == {1, ONE_MINUTE - 1}
\* seconds a conversion takes
ConvertDurations == {1, ONE_MINUTE}

\* files the disk may hold: the epubs of the weeks of RunDates in the epub
\* directory, and one in the directory b
DiskCandidates(a) ==
    {normpath(to_epub_file_path(a, d)) : d \in RunDates}
    \cup {normpath(path_join(<<"b">>, format(<<"n", "{weekno}">>,
                                              strftime_yW(Date(2025, 1, 8)))))}

----------------------------------------------------------------------------
(* The discovery functions *)

\* get_current_epub_id_maps on a page that parses; the current issue has
\* the id 0
get_current_epub_id_maps(a, date) ==
    dict_set(<<>>, to_epub_file_path(a, date), 0)

\* get_archive_epub_id_maps on a page that parses; the i-th link from
\* `first` has the id i
RECURSIVE archive_maps(_, _, _, _)
archive_maps(a, links, first, result) ==
    IF links = <<>> THEN result
    ELSE archive_maps(a, Tail(links), first + 1,
                      dict_set(result, to_epub_file_path(a, Head(links)), first))

get_archive_epub_id_maps(a, links) == archive_maps(a, links, 1, <<>>)

\* no filter
missing_of_unfiltered(most_recent, converted) == most_recent

\* the dict comprehension of lines 343-346
missing_of(most_recent, converted) ==
    SelectSeq(most_recent, LAMBDA kv : kv[1] \notin converted)

----------------------------------------------------------------------------
(* The rate limiter of lines 207-208 (ratelimit.limits, sleep_and_retry) *)

clamped_calls == IF MAX_CALLS_PER_MINUTE < 1 THEN 1 ELSE MAX_CALLS_PER_MINUTE

\* a period one second short
period_remaining_short(now, reset) == ONE_MINUTE - 1 - (now - reset)

\* RateLimitDecorator.__period_remaining
period_remaining(now, reset) == ONE_MINUTE - (now - reset)

\* a bare except
retried_any(exception) == TRUE

\* sleep_and_retry retries on RateLimitException only
retried(exception) == exception = "RateLimitException"

\* only the server errors
login_failed_on_server_error(status_code) == status_code >= 500

\* line 337
login_failed(status_code) == status_code # 200

\* line 331 (login_url has a default and is never empty)
all_credentials(a) ==
    a.login_url # "None" /\ a.username # "None" /\ a.password # "None"

----------------------------------------------------------------------------
(* main(), lines 329-350 *)

ArgsIdle ==
    /\ config = [given |-> FALSE, files |-> <<>>]
    /\ cli = <<>> /\ defaults = <<>> /\ next_config = 0

PathIdle ==
    /\ date1 = Date(1, 1, 1) /\ date2 = Date(1, 1, 1)
    /\ path1 = <<>> /\ path2 = <<>>

\* the state of a process that has not reached line 329
ProcessIdle ==
    /\ most_recent_epub_id_maps = <<>>
    /\ discovered = <<>>
    /\ converted_epubs = {}
    /\ scanned = {}
    /\ missing_epub_id_maps = <<>>
    /\ next_item = 0
    /\ clock = 0
    /\ last_reset = 0
    /\ num_calls = 0
    /\ runs = <<>>
    /\ trace = <<>>
    /\ exit_status = -1

Init ==
    /\ args \in Namespaces
    /\ disk \in SUBSET DiskCandidates(args)
    /\ run = 1
    /\ remote = [login |-> {}, current |-> {}, archive |-> {}]
    /\ pc = "login"
    /\ ProcessIdle
    /\ ArgsIdle
    /\ PathIdle

Served(field, choices) ==
    IF remote[field] = {} THEN choices ELSE remote[field]

Exit(status) ==
    /\ pc' = "exited"
    /\ exit_status' = status

\* lines 331-339: the login request
Login ==
    /\ pc = "login"
    /\ all_credentials(args)
    /\ \E response \in Served("login", LoginResponses) :
        /\ remote' = [remote EXCEPT !.login = {response}]
        /\ IF response.raised
           THEN trace' = trace \o <<"login", "raise">> /\ Exit(1)
           ELSE IF login_failed(response.status_code)
           THEN trace' = Append(trace, "login") /\ Exit(1)
           ELSE trace' = Append(trace, "login") /\ pc' = "current"
                /\ UNCHANGED exit_status
    /\ UNCHANGED <<args, run, scanned, disk, most_recent_epub_id_maps,
                   discovered, converted_epubs, missing_epub_id_maps,
                   next_item, clock, last_reset, num_calls, runs>>
    /\ UNCHANGED <<argVars, pathVars>>

\* line 331, no credentials: neither the login nor the current page
NoLogin ==
    /\ pc = "login"
    /\ ~all_credentials(args)
    /\ pc' = "archive"
    /\ UNCHANGED <<args, run, remote, scanned, disk, most_recent_epub_id_maps,
                   discovered, converted_epubs, missing_epub_id_maps,
                   next_item, clock, last_reset, num_calls, runs, trace,
                   exit_status>>
    /\ UNCHANGED <<argVars, pathVars>>

\* line 340
GetCurrent ==
    /\ pc = "current"
    /\ \E page \in Served("current", CurrentPages) :
        /\ remote' = [remote EXCEPT !.current = {page}]
        /\ IF ~page.parses
           THEN /\ trace' = trace \o <<"get_current", "raise">>
                /\ Exit(1)
                /\ UNCHANGED <<most_recent_epub_id_maps, discovered>>
           ELSE LET found == get_current_epub_id_maps(args, page.content[1])
                IN  /\ trace' = Append(trace, "get_current")
                    /\ most_recent_epub_id_maps' =
                           dict_update(most_recent_epub_id_maps, found)
                    /\ discovered' = discovered \o found
                    /\ pc' = "archive"
                    /\ UNCHANGED exit_status
    /\ UNCHANGED <<args, run, scanned, disk, converted_epubs,
                   missing_epub_id_maps, next_item, clock, last_reset,
                   num_calls, runs>>
    /\ UNCHANGED <<argVars, pathVars>>

\* line 341
GetArchive ==
    /\ pc = "archive"
    /\ \E page \in Served("archive", ArchivePages), delay \in StartupDelays :
        /\ remote' = [remote EXCEPT !.archive = {page}]
        /\ clock' = clock + delay
        /\ IF ~page.parses
           THEN /\ trace' = trace \o <<"get_archive", "raise">>
                /\ Exit(1)
                /\ UNCHANGED <<most_recent_epub_id_maps, discovered>>
           ELSE /\ trace' = Append(trace, "get_archive")
                /\ most_recent_epub_id_maps' =
                       dict_update(most_recent_epub_id_maps,
                                   get_archive_epub_id_maps(args, page.content))
                /\ discovered' = discovered \o
                       [i \in 1..Len(page.content) |->
                           <<to_epub_file_path(args, page.content[i]), i>>]
                /\ pc' = "scan"
                /\ UNCHANGED exit_status
    /\ UNCHANGED <<args, run, scanned, disk, converted_epubs,
                   missing_epub_id_maps, next_item, last_reset, num_calls,
                   runs>>
    /\ UNCHANGED <<argVars, pathVars>>

\* line 342
Scan ==
    /\ pc = "scan"
    /\ converted_epubs' = get_converted_epubs(FileSystem(disk, args), args)
    /\ scanned' = disk
    /\ trace' = Append(trace, "scan")
    /\ pc' = "diff"
    /\ UNCHANGED <<args, run, remote, disk, most_recent_epub_id_maps,
                   discovered, missing_epub_id_maps, next_item, clock,
                   last_reset, num_calls, runs, exit_status>>
    /\ UNCHANGED <<argVars, pathVars>>

\* lines 343-346
Diff ==
    /\ pc = "diff"
    /\ missing_epub_id_maps' =
           missing_of(most_recent_epub_id_maps, converted_epubs)
    /\ next_item' = 1
    /\ pc' = "loop"
    /\ UNCHANGED <<args, run, remote, scanned, disk, most_recent_epub_id_maps,
                   discovered, converted_epubs, clock, last_reset, num_calls,
                   runs, trace, exit_status>>
    /\ UNCHANGED <<argVars, pathVars>>

\* the limiter's state after it has counted a call made at the clock
WindowReset == period_remaining(clock, last_reset) <= 0
CountedCalls == (IF WindowReset THEN 0 ELSE num_calls) + 1
CountedReset == IF WindowReset THEN clock ELSE last_reset

\* line 349, the limit is exceeded: limits raises RateLimitException,
\* sleep_and_retry sleeps for the rest of the period and calls again
ConvertSleep ==
    /\ pc = "loop"
    /\ next_item <= Len(missing_epub_id_maps)
    /\ CountedCalls > clamped_calls
    /\ num_calls' = CountedCalls
    /\ last_reset' = CountedReset
    /\ IF retried("RateLimitException")
       THEN /\ clock' = clock + period_remaining(clock, last_reset)
            /\ trace' = Append(trace, "sleep")
            /\ UNCHANGED <<pc, exit_status>>
       ELSE /\ trace' = Append(trace, "raise")
            /\ Exit(1)
            /\ UNCHANGED clock
    /\ UNCHANGED <<args, run, remote, scanned, disk, most_recent_epub_id_maps,
                   discovered, converted_epubs, missing_epub_id_maps,
                   next_item, runs>>
    /\ UNCHANGED <<argVars, pathVars>>

\* line 349, within the limit: the body of convert_issue_to_epub runs
\* ebook-convert, which writes dest or fails
ConvertRun ==
    /\ pc = "loop"
    /\ next_item <= Len(missing_epub_id_maps)
    /\ CountedCalls <= clamped_calls
    /\ num_calls' = CountedCalls
    /\ last_reset' = CountedReset
    /\ \E result \in {"ok", "CalledProcessError"}, took \in ConvertDurations :
        LET dest == missing_epub_id_maps[next_item][1]
            issue == missing_epub_id_maps[next_item][2]
        IN  /\ runs' = Append(runs, [start |-> clock, reset |-> CountedReset,
                                     dest |-> dest, issue |-> issue,
                                     result |-> result])
            /\ clock' = clock + took
            /\ IF result = "ok"
               THEN /\ disk' = disk \cup {normpath(dest)}
                    /\ next_item' = next_item + 1
                    /\ UNCHANGED <<pc, exit_status, trace>>
               ELSE IF retried(result)
               THEN UNCHANGED <<disk, next_item, pc, exit_status, trace>>
               ELSE /\ trace' = Append(trace, "raise")
                    /\ Exit(1)
                    /\ UNCHANGED <<disk, next_item>>
    /\ UNCHANGED <<args, run, remote, scanned, most_recent_epub_id_maps,
                   discovered, converted_epubs, missing_epub_id_maps>>
    /\ UNCHANGED <<argVars, pathVars>>

\* lines 350 and 354
Return ==
    /\ pc = "loop"
    /\ next_item > Len(missing_epub_id_maps)
    /\ Exit(0)
    /\ UNCHANGED <<args, run, remote, scanned, disk, most_recent_epub_id_maps,
                   discovered, converted_epubs, missing_epub_id_maps,
                   next_item, clock, last_reset, num_calls, runs, trace>>
    /\ UNCHANGED <<argVars, pathVars>>

\* the program is run again after a normal completion: a new process, the
\* same disk, the same remote content
Rerun ==
    /\ pc = "exited"
    /\ exit_status = 0
    /\ run < MaxRuns
    /\ run' = run + 1
    /\ pc' = "login"
    /\ most_recent_epub_id_maps' = <<>>
    /\ discovered' = <<>>
    /\ converted_epubs' = {}
    /\ scanned' = {}
    /\ missing_epub_id_maps' = <<>>
    /\ next_item' = 0
    /\ clock' = 0
    /\ last_reset' = 0
    /\ num_calls' = 0
    /\ runs' = <<>>
    /\ trace' = <<>>
    /\ exit_status' = -1
    /\ UNCHANGED <<args, remote, disk>>
    /\ UNCHANGED <<argVars, pathVars>>

Next ==
    \/ Login
    \/ NoLogin
    \/ GetCurrent
    \/ GetArchive
    \/ Scan
    \/ Diff
    \/ ConvertSleep
    \/ ConvertRun
    \/ Return
    \/ Rerun

Spec == Init /\ [][Next]_vars

----------------------------------------------------------------------------
(* Option resolution, lines 323-327.  A dict is a function from the keys   *)
(* it sets.                                                                *)

Options == {"username", "epub_file_format"}
OptionValues == {"v1", "v2"}

\* the defaults of add_argument, lines 288-298
BuiltinDefaults ==
    [o \in Options |->
        IF o = "username" THEN "None" ELSE "lwn.net-{weekno}.epub"]

Dicts == UNION {[keys -> OptionValues] : keys \in SUBSET Options}

\* a default that is set is kept
set_defaults_keeping(current, arg) ==
    [o \in DOMAIN current \cup DOMAIN arg |->
        IF o \in DOMAIN current THEN current[o] ELSE arg[o]]

\* parser.set_defaults(**arg)
set_defaults(current, arg) ==
    [o \in DOMAIN current \cup DOMAIN arg |->
        IF o \in DOMAIN arg THEN arg[o] ELSE current[o]]

\* parser.parse_args(): an option of the command line, else its default
parse_args(current, given) ==
    [o \in DOMAIN current |-> IF o \in DOMAIN given THEN given[o] ELSE current[o]]

InitArgs ==
    /\ config \in {[given |-> FALSE, files |-> <<>>]}
                  \cup {[given |-> TRUE, files |-> f] :
                          f \in SeqsUpTo(Dicts, MaxConfigs)}
    /\ cli \in Dicts
    /\ defaults = BuiltinDefaults
    /\ next_config = 0
    /\ args = <<>>
    /\ pc = "pre_parse"
    /\ run = 1
    /\ remote = [login |-> {}, current |-> {}, archive |-> {}]
    /\ disk = {}
    /\ ProcessIdle
    /\ PathIdle

\* lines 323-324
PreParse ==
    /\ pc = "pre_parse"
    /\ next_config' = 1
    /\ pc' = IF config.given /\ config.files # <<>>
             THEN "set_defaults" ELSE "parse_args"
    /\ UNCHANGED <<args, config, cli, defaults>>
    /\ UNCHANGED <<run, remote, scanned, disk, most_recent_epub_id_maps,
                   discovered, converted_epubs, missing_epub_id_maps,
                   next_item, clock, last_reset, num_calls, runs, trace,
                   exit_status>>
    /\ UNCHANGED pathVars

\* lines 325-326, one iteration
SetDefaults ==
    /\ pc = "set_defaults"
    /\ next_config <= Len(config.files)
    /\ defaults' = set_defaults(defaults, config.files[next_config])
    /\ next_config' = next_config + 1
    /\ pc' = IF next_config = Len(config.files)
             THEN "parse_args" ELSE "set_defaults"
    /\ UNCHANGED <<args, config, cli>>
    /\ UNCHANGED <<run, remote, scanned, disk, most_recent_epub_id_maps,
                   discovered, converted_epubs, missing_epub_id_maps,
                   next_item, clock, last_reset, num_calls, runs, trace,
                   exit_status>>
    /\ UNCHANGED pathVars

\* line 327
ParseArgs ==
    /\ pc = "parse_args"
    /\ args' = parse_args(defaults, cli)
    /\ pc' = "parsed"
    /\ UNCHANGED <<config, cli, defaults, next_config>>
    /\ UNCHANGED <<run, remote, scanned, disk, most_recent_epub_id_maps,
                   discovered, converted_epubs, missing_epub_id_maps,
                   next_item, clock, last_reset, num_calls, runs, trace,
                   exit_status>>
    /\ UNCHANGED pathVars

NextArgs ==
    \/ PreParse
    \/ SetDefaults
    \/ ParseArgs

SpecArgs == InitArgs /\ [][NextArgs]_vars

----------------------------------------------------------------------------
(* to_epub_file_path on pairs of publication dates *)

PathYears == {2024, 2025, 2124}

\* the first MaxDay days of January and the last MaxDay days of December
PathDates ==
    {Date(y, 1, d) : y \in PathYears, d \in 1..MaxDay}
    \cup {Date(y, 12, 32 - d) : y \in PathYears, d \in 1..MaxDay}

InitPath ==
    /\ args \in {n \in Namespaces : n.username = "None"}
    /\ date1 \in PathDates
    /\ date2 \in PathDates
    /\ path1 = <<>>
    /\ path2 = <<>>
    /\ pc = "dates"
    /\ run = 1
    /\ remote = [login |-> {}, current |-> {}, archive |-> {}]
    /\ disk = {}
    /\ ProcessIdle
    /\ ArgsIdle

\* lines 156-159, for each of the two dates
ComputePaths ==
    /\ pc = "dates"
    /\ path1' = to_epub_file_path(args, date1)
    /\ path2' = to_epub_file_path(args, date2)
    /\ pc' = "paths"
    /\ UNCHANGED <<args, date1, date2>>
    /\ UNCHANGED <<run, remote, scanned, disk, most_recent_epub_id_maps,
                   discovered, converted_epubs, missing_epub_id_maps,
                   next_item, clock, last_reset, num_calls, runs, trace,
                   exit_status>>
    /\ UNCHANGED argVars

NextPath == ComputePaths

SpecPath == InitPath /\ [][NextPath]_vars

----------------------------------------------------------------------------
(* Properties *)

Range(q) == {q[i] : i \in 1..Len(q)}

\* the elements of q in the order of their first occurrence
RECURSIVE FirstOccurrences(_)
FirstOccurrences(q) ==
    IF q = <<>> THEN <<>>
    ELSE LET front == FirstOccurrences(SubSeq(q, 1, Len(q) - 1))
             last == q[Len(q)]
         IN  IF last \in Range(front) THEN front ELSE Append(front, last)

DiscoveredPaths == [i \in 1..Len(discovered) |-> discovered[i][1]]
RunDests == [i \in 1..Len(runs) |-> runs[i].dest]

\* the id of the issue discovered last for a path
LastDiscoveredId(path) ==
    LET last == CHOOSE k \in 1..Len(discovered) :
                    /\ discovered[k][1] = path
                    /\ \A j \in (k + 1)..Len(discovered) : discovered[j][1] # path
    IN  discovered[last][2]

\* the main function has computed the diff
DiffDone == next_item >= 1

\* the ordinal of the Monday of the calendar week of a date
WeekStart(date) == toordinal(date) - weekday(date)

\* the Mondays of the year of a date up to that date
MondaysSoFar(date) ==
    Cardinality({d \in 1..yday(date) :
                   (days_before_year(date.year) + d + 6) % 7 = 0})

\* the ISO 8601 week number of a date: week 1 is the week of the first
\* Thursday of its year
IsoWeek1Monday(y) ==
    LET firstday == ymd2ord(y, 1, 1)
        firstweekday == (firstday + 6) % 7
        monday == firstday - firstweekday
    IN  IF firstweekday > 3 THEN monday + 7 ELSE monday

IsoWeek(date) ==
    LET today == toordinal(date)
    IN  IF today < IsoWeek1Monday(date.year)
        THEN ((today - IsoWeek1Monday(date.year - 1)) \div 7) + 1
        ELSE IF today >= IsoWeek1Monday(date.year + 1)
        THEN 1
        ELSE ((today - IsoWeek1Monday(date.year)) \div 7) + 1

\* the dates of the issues discovered in this run, in discovery order
DiscoveredDates ==
    (IF "get_current" \in Range(trace)
     THEN (CHOOSE page \in remote.current : TRUE).content ELSE <<>>)
    \o (CHOOSE page \in remote.archive : TRUE).content

\* the login request was made and was not answered with 200
LoginRefused ==
    /\ "login" \in Range(trace)
    /\ \E r \in remote.login : r.raised \/ r.status_code # 200

\* a step of the run has failed
Failed == LoginRefused \/ "raise" \in Range(trace)

\* C1: the missing-issue mapping computed by main() holds no path that the
\* inventory scan returned, and holds only discovered paths.
C1_DiffExcludesInventory ==
    /\ Keys(missing_epub_id_maps) \cap converted_epubs = {}
    /\ Keys(missing_epub_id_maps) \subseteq Keys(most_recent_epub_id_maps)
    /\ DiffDone =>
         Keys(most_recent_epub_id_maps) \ converted_epubs
             \subseteq Keys(missing_epub_id_maps)

C1_Witness ==
    /\ DiffDone
    /\ missing_epub_id_maps # <<>>
    /\ Keys(most_recent_epub_id_maps) \cap converted_epubs # {}

\* C2: a run that ends without a failure has executed the conversion once
\* for each discovered path that the inventory does not hold, in the order
\* of discovery, and for no other path; none when the inventory holds all
\* the discovered paths; one, for the missing issue, when two issues of two
\* different weeks were discovered and the inventory holds one of them.
C2_OneCallPerMissingInOrder ==
    (pc = "exited" /\ exit_status = 0) =>
        /\ RunDests = SelectSeq(FirstOccurrences(DiscoveredPaths),
                                LAMBDA path : path \notin converted_epubs)
        /\ \A i \in 1..Len(runs) :
               runs[i].issue = LastDiscoveredId(runs[i].dest)
        /\ Range(DiscoveredPaths) \subseteq converted_epubs => runs = <<>>
        /\ ( /\ Len(DiscoveredDates) = 2
             /\ WeekStart(DiscoveredDates[1]) # WeekStart(DiscoveredDates[2])
             /\ Cardinality(Range(DiscoveredPaths) \cap converted_epubs) = 1 )
           => /\ Len(runs) = 1
              /\ runs[1].dest \in Range(DiscoveredPaths) \ converted_epubs

C2_Witness ==
    /\ pc = "exited"
    /\ exit_status = 0
    /\ Len(DiscoveredDates) = 2
    /\ WeekStart(DiscoveredDates[1]) # WeekStart(DiscoveredDates[2])
    /\ Cardinality(Range(DiscoveredPaths) \cap converted_epubs) = 1
    /\ Len(runs) = 1

\* C3 as stated: no two executions of the body of convert_issue_to_epub
\* start less than 60 seconds apart.
C3_StartsOneMinuteApart ==
    \A i \in 1..Len(runs) : \A j \in 1..Len(runs) :
        i < j => runs[j].start - runs[i].start >= ONE_MINUTE

\* C3, amended: every execution of the body starts within the limiter's
\* window that it was counted in, the windows of two executions begin at
\* least 60 seconds apart (at most one execution per window), and a call
\* that exceeds the limit sleeps until the window is over, so that the call
\* made again is admitted: no missing issue is dropped and the limit never
\* ends the run.
C3_OneCallPerWindow ==
    /\ \A i \in 1..Len(runs) :
           /\ runs[i].reset <= runs[i].start
           /\ runs[i].start < runs[i].reset + ONE_MINUTE
    /\ \A i \in 1..Len(runs) : \A j \in 1..Len(runs) :
           i < j => runs[j].reset >= runs[i].reset + ONE_MINUTE
    /\ ( /\ pc = "loop"
         /\ next_item <= Len(missing_epub_id_maps)
         /\ num_calls > clamped_calls )
       => ONE_MINUTE - (clock - last_reset) <= 0
    /\ ( /\ pc = "exited"
         /\ DiffDone
         /\ \A i \in 1..Len(runs) : runs[i].result = "ok" )
       => /\ Len(runs) = Len(missing_epub_id_maps)
          /\ exit_status = 0

C3_Witness ==
    /\ "sleep" \in Range(trace)
    /\ Len(runs) = 2
    /\ runs[2].start = runs[1].reset + ONE_MINUTE
    /\ runs[2].start - runs[1].start < ONE_MINUTE

C5_KeyIsYearAndIsoWeek ==
    pc = "paths" =>
        path1 = path_join(args.epub_directory,
                          format(args.epub_file_format,
                                 TwoDigits(date1.year % 100)
                                 \o TwoDigits(IsoWeek(date1))))

\* C5, amended: the key is the two-digit year followed by the two-digit
\* number of the week of the year counted from the first Monday (the count
\* of Mondays since 1 January, 00 before the first Monday).
C5_KeyIsYearAndMondayWeek ==
    pc = "paths" =>
        path1 = path_join(args.epub_directory,
                          format(args.epub_file_format,
                                 TwoDigits(date1.year % 100)
                                 \o TwoDigits(MondaysSoFar(date1))))

C5_Witness ==
    /\ pc = "paths"
    /\ MondaysSoFar(date1) = 0
    /\ IsoWeek(date1) = 1

\* C6: a run in which the login is refused or a step raises an error ends
\* with a non-zero exit status, and every other run that ends, also one
\* with no missing issue, ends with the exit status 0.
C6_ExitStatus ==
    /\ Failed => pc = "exited" /\ exit_status # 0
    /\ (pc = "exited" /\ ~Failed) => exit_status = 0

C6_Witness ==
    /\ pc = "exited"
    /\ exit_status = 0
    /\ discovered # <<>>
    /\ missing_epub_id_maps = <<>>
    /\ "login" \in Range(trace)

\* C7: the effective value of an option is the value of the command line
\* if it is given there, else the value of the last config file that sets
\* its key, else the built-in default.
C7_Precedence ==
    pc = "parsed" =>
        \A o \in Options :
            LET setting == {i \in 1..Len(config.files) :
                               o \in DOMAIN config.files[i]}
                last == CHOOSE i \in setting : \A j \in setting : j <= i
            IN  args[o] = IF o \in DOMAIN cli THEN cli[o]
                          ELSE IF setting # {} THEN config.files[last][o]
                          ELSE BuiltinDefaults[o]

C7_Witness ==
    /\ pc = "parsed"
    /\ Len(config.files) = 2
    /\ "username" \in DOMAIN config.files[1] \cap DOMAIN config.files[2]
    /\ config.files[1]["username"] # config.files[2]["username"]
    /\ "username" \notin DOMAIN cli
    /\ "epub_file_format" \in DOMAIN config.files[2] \cap DOMAIN cli
    /\ config.files[2]["epub_file_format"] # cli["epub_file_format"]

\* C8: after a refused login the run has ended without a discovery fetch,
\* an inventory scan or a conversion; a conversion whose tool fails is the
\* last conversion of the run, and the run has ended.
C8_AbortOnFirstFailure ==
    /\ LoginRefused =>
           /\ pc = "exited"
           /\ runs = <<>>
           /\ Range(trace) \cap {"get_current", "get_archive", "scan"} = {}
    /\ \A i \in 1..Len(runs) :
           runs[i].result # "ok" => i = Len(runs) /\ pc = "exited"

C8_Witness ==
    /\ pc = "exited"
    /\ Len(runs) = 1
    /\ runs[1].result # "ok"
    /\ Len(missing_epub_id_maps) = 2

\* C9: the result mapping holds one entry for each discovered path, with
\* the id of the issue discovered last for that path, and a run makes at
\* most one conversion for a path.
C9_LastDiscoveredWins ==
    /\ \A i \in 1..Len(most_recent_epub_id_maps) :
           \A j \in 1..Len(most_recent_epub_id_maps) :
               most_recent_epub_id_maps[i][1] = most_recent_epub_id_maps[j][1]
                   => i = j
    /\ Keys(most_recent_epub_id_maps) = Range(DiscoveredPaths)
    /\ \A i \in 1..Len(most_recent_epub_id_maps) :
           most_recent_epub_id_maps[i][2] =
               LastDiscoveredId(most_recent_epub_id_maps[i][1])
    /\ \A i \in 1..Len(runs) : \A j \in 1..Len(runs) :
           runs[i].dest = runs[j].dest => i = j
    /\ \A i \in 1..Len(runs) : runs[i].issue = LastDiscoveredId(runs[i].dest)

C9_Witness ==
    /\ pc = "exited"
    /\ exit_status = 0
    /\ Len(discovered) = 3
    /\ discovered[1][1] = discovered[2][1]
    /\ discovered[1][1] = discovered[3][1]
    /\ Len(runs) = 1
    /\ runs[1].issue = discovered[3][2]

\* C10: a discovered issue whose file exists on the disk when the
\* inventory is scanned has its path in the inventory and is not
\* converted, and a run that follows a run that ended normally makes no
\* conversion.
C10_ExistingFileIsInventoried ==
    /\ DiffDone =>
           \A i \in 1..Len(most_recent_epub_id_maps) :
               LET path == most_recent_epub_id_maps[i][1]
               IN  normpath(path) \in scanned =>
                       /\ path \in converted_epubs
                       /\ path \notin Range(RunDests)
    /\ run >= 2 => runs = <<>>

====
